---- MODULE Spec2Model ----
(***************************************************************************)
(* A model of scripts/oplprobe.py, the library shared by the probe         *)
(* scripts: gethtml, getenteredurls, getunenteredurls and print_meets.     *)
(*                                                                         *)
(* A Python str is modelled as a sequence of Unicode code points, so that  *)
(* substring tests, replacements, percent-decoding and host re-encoding    *)
(* are computed character by character, as the interpreter computes them.  *)
(***************************************************************************)
EXTENDS Integers, Sequences, FiniteSets, TLC

(***************************************************************************)
(* Text                                                                    *)
(***************************************************************************)

\* The printable ASCII characters, code points 32..126, in order (code point 96
\* is spelled "grave": a string cannot hold it).
Ascii ==
    <<" ", "!", "\"", "#", "$", "%", "&", "'", "(", ")", "*", "+", ",", "-", ".", "/",
      "0", "1", "2", "3", "4", "5", "6", "7", "8", "9", ":", ";", "<", "=", ">", "?",
      "@", "A", "B", "C", "D", "E", "F", "G", "H", "I", "J", "K", "L", "M", "N", "O",
      "P", "Q", "R", "S", "T", "U", "V", "W", "X", "Y", "Z", "[", "\\", "]", "^", "_",
      "grave", "a", "b", "c", "d", "e", "f", "g", "h", "i", "j", "k", "l", "m", "n", "o",
      "p", "q", "r", "s", "t", "u", "v", "w", "x", "y", "z", "{", "|", "}", "~">>

\* ord(c) of a printable ASCII character.
Ord(c) == 31 + (CHOOSE i \in 1..Len(Ascii) : Ascii[i] = c)

\* The str spelled by a tuple of printable ASCII characters.
Str(t) == [i \in 1..Len(t) |-> Ord(t[i])]

\* The characters the code names.
Colon == Ord(":")
Slash == Ord("/")
Question == Ord("?")
Hash == Ord("#")
Dot == Ord(".")
Percent == Ord("%")
Space == Ord(" ")

\* s[i:], with i counted from 1.
From(s, i) == SubSeq(s, i, Len(s))

\* sub in s
Contains(s, sub) ==
    \E i \in 1..(Len(s) - Len(sub) + 1) : SubSeq(s, i, i + Len(sub) - 1) = sub

\* s.startswith(p)
StartsWith(s, p) == Len(s) >= Len(p) /\ SubSeq(s, 1, Len(p)) = p

\* s.find(sub) counted from 1; 0 when sub does not occur (Python's -1).
Find(s, sub) ==
    IF Contains(s, sub)
    THEN CHOOSE i \in 1..(Len(s) - Len(sub) + 1) :
            /\ SubSeq(s, i, i + Len(sub) - 1) = sub
            /\ \A j \in 1..(i - 1) : SubSeq(s, j, j + Len(sub) - 1) # sub
    ELSE 0

\* s.replace(old, new) for a non-empty old: every non-overlapping occurrence,
\* found left to right.
RECURSIVE Replace(_, _, _)
Replace(s, old, new) ==
    IF Len(s) < Len(old) THEN s
    ELSE IF StartsWith(s, old)
         THEN new \o Replace(From(s, Len(old) + 1), old, new)
         ELSE <<s[1]>> \o Replace(Tail(s), old, new)

\* The concatenation of a sequence of strs.
RECURSIVE Concat(_)
Concat(ss) == IF ss = <<>> THEN <<>> ELSE Head(ss) \o Concat(Tail(ss))

\* str.isspace for one character.
IsSpace(c) ==
    c \in (9..13) \cup (28..32) \cup {133, 160, 5760, 8232, 8233, 8239, 8287, 12288}
          \cup (8192..8202)

\* s.lstrip(), s.rstrip() and s.strip() with no argument.
RECURSIVE LStrip(_)
LStrip(s) == IF s # <<>> /\ IsSpace(s[1]) THEN LStrip(Tail(s)) ELSE s

RECURSIVE RStrip(_)
RStrip(s) ==
    IF s # <<>> /\ IsSpace(s[Len(s)]) THEN RStrip(SubSeq(s, 1, Len(s) - 1)) ELSE s

Strip(s) == RStrip(LStrip(s))

\* str.lower for one ASCII character.
LowerAscii(c) == IF c \in 65..90 THEN c + 32 ELSE c

\* "%d" % n for n >= 0.
RECURSIVE Decimal(_)
Decimal(n) ==
    IF n < 10 THEN <<48 + n>> ELSE Decimal(n \div 10) \o <<48 + (n % 10)>>

(***************************************************************************)
(* urllib.parse.unquote(k), as line 58 and line 65 call it: utf-8, with    *)
(* errors='replace'.                                                       *)
(***************************************************************************)

IsHex(c) == c \in (48..57) \cup (65..70) \cup (97..102)

HexVal(c) == IF c \in 48..57 THEN c - 48 ELSE IF c \in 65..70 THEN c - 55 ELSE c - 87

\* unquote_to_bytes on a run of ASCII characters: each "%" followed by two
\* hexadecimal digits becomes the byte they spell.
RECURSIVE UnquoteToBytes(_)
UnquoteToBytes(s) ==
    IF s = <<>> THEN <<>>
    ELSE IF s[1] = Percent /\ Len(s) >= 3 /\ IsHex(s[2]) /\ IsHex(s[3])
         THEN <<16 * HexVal(s[2]) + HexVal(s[3])>> \o UnquoteToBytes(From(s, 4))
         ELSE <<s[1]>> \o UnquoteToBytes(Tail(s))

IsCont(b, i, lo, hi) == i <= Len(b) /\ b[i] \in lo..hi

\* bytes.decode('utf-8', 'replace'): a maximal ill-formed prefix of a
\* sequence becomes one U+FFFD.
RECURSIVE Utf8Decode(_)
Utf8Decode(b) ==
    IF b = <<>> THEN <<>>
    ELSE LET c == b[1]
             lo2 == IF c = 224 THEN 160 ELSE IF c = 240 THEN 144 ELSE 128
             hi2 == IF c = 237 THEN 159 ELSE IF c = 244 THEN 143 ELSE 191
             need == IF c < 128 THEN 0
                     ELSE IF c \in 194..223 THEN 1
                     ELSE IF c \in 224..239 THEN 2
                     ELSE IF c \in 240..244 THEN 3
                     ELSE -1
             got == IF need < 1 \/ ~IsCont(b, 2, lo2, hi2) THEN 0
                    ELSE IF need < 2 \/ ~IsCont(b, 3, 128, 191) THEN 1
                    ELSE IF need < 3 \/ ~IsCont(b, 4, 128, 191) THEN 2
                    ELSE 3
             cp == IF need = 1 THEN (c - 192) * 64 + (b[2] - 128)
                   ELSE IF need = 2
                        THEN (c - 224) * 4096 + (b[2] - 128) * 64 + (b[3] - 128)
                   ELSE (c - 240) * 262144 + (b[2] - 128) * 4096
                        + (b[3] - 128) * 64 + (b[4] - 128)
         IN IF need = 0 THEN <<c>> \o Utf8Decode(Tail(b))
            ELSE IF need > 0 /\ got = need THEN <<cp>> \o Utf8Decode(From(b, need + 2))
            ELSE <<65533>> \o Utf8Decode(From(b, got + 2))

\* The length of the longest prefix of s whose characters all satisfy
\* (ascii = TRUE) or all fail (ascii = FALSE) c < 128.
RECURSIVE RunLen(_, _)
RunLen(s, ascii) ==
    IF s = <<>> \/ ((s[1] < 128) # ascii) THEN 0 ELSE 1 + RunLen(Tail(s), ascii)

\* The runs of ASCII characters are decoded, the characters between them kept.
RECURSIVE UnquoteRuns(_)
UnquoteRuns(s) ==
    IF s = <<>> THEN <<>>
    ELSE LET a == RunLen(s, TRUE)
             n == RunLen(s, FALSE)
         IN IF a > 0
            THEN Utf8Decode(UnquoteToBytes(SubSeq(s, 1, a))) \o UnquoteRuns(From(s, a + 1))
            ELSE SubSeq(s, 1, n) \o UnquoteRuns(From(s, n + 1))

\* unquote(s): a str with no "%" is given back as it is.
Unquote(s) == IF ~Contains(s, <<Percent>>) THEN s ELSE UnquoteRuns(s)

(***************************************************************************)
(* urllib.parse.urlsplit(k) and urllib.parse.urlunsplit(parts), line 61    *)
(* and line 63.  A result is a record [err, val]: err is "none", or the    *)
(* name of the exception raised.                                           *)
(***************************************************************************)

Ok(v) == [err |-> "none", val |-> v]

Raise(e) == [err |-> e, val |-> <<>>]

IsAsciiStr(s) == \A i \in 1..Len(s) : s[i] < 128

\* The characters a scheme may hold: letters, digits, "+", "-" and ".".
IsSchemeChar(c) ==
    c \in (97..122) \cup (65..90) \cup (48..57) \cup {Ord("+"), Ord("-"), Dot}

\* url.lstrip of the C0 control characters and the space.
RECURSIVE LStripC0(_)
LStripC0(s) == IF s # <<>> /\ s[1] <= 32 THEN LStripC0(Tail(s)) ELSE s

\* The tab, carriage return and line feed are removed wherever they stand.
RemoveUnsafe(s) == SelectSeq(s, LAMBDA c : c \notin {9, 10, 13})

\* The index of the first of "/", "?", "#" in s at or after start; Len(s) + 1
\* when there is none.
FirstDelim(s, start) ==
    LET hits == {i \in start..Len(s) : s[i] \in {Slash, Question, Hash}}
    IN IF hits = {} THEN Len(s) + 1 ELSE CHOOSE i \in hits : \A j \in hits : i <= j

\* The check of "[" and "]" in a netloc.  A netloc holding both goes through
\* the ipaddress module, which is not modelled: no URL of the model holds both.
BracketCheck(netloc) ==
    LET open == Contains(netloc, <<Ord("[")>>)
        close == Contains(netloc, <<Ord("]")>>)
    IN CASE ~open /\ ~close -> "none"
         [] open # close -> "ValueError"

\* unicodedata.normalize('NFKC', c) for the characters beyond ASCII that the
\* model's URLs hold: e acute, E acute and U+FFFD are their own normal form.
Nfkc(c) == CASE c < 128 -> <<c>>
             [] c \in {201, 233, 65533} -> <<c>>

\* _checknetloc: a netloc whose NFKC form gains one of "/?#@:" is refused.
CheckNetloc(netloc) ==
    IF netloc = <<>> \/ IsAsciiStr(netloc) THEN "none"
    ELSE LET n == SelectSeq(netloc, LAMBDA c : c \notin {Ord("@"), Colon, Hash, Question})
             n2 == Concat([i \in 1..Len(n) |-> Nfkc(n[i])])
         IN IF n = n2 THEN "none"
            ELSE IF \E i \in 1..Len(n2) : n2[i] \in {Slash, Question, Hash, Ord("@"), Colon}
                 THEN "ValueError"
                 ELSE "none"

\* s cut at the first c: <<before, after>>, and <<s, "">> when c is not in s.
PartitionFirst(s, c) ==
    IF Contains(s, <<c>>)
    THEN <<SubSeq(s, 1, Find(s, <<c>>) - 1), From(s, Find(s, <<c>>) + 1)>>
    ELSE <<s, <<>>>>

\* The length of the scheme that url starts with; 0 when it starts with none.
SchemeLen(url) ==
    IF /\ Find(url, <<Colon>>) > 1
       /\ url[1] \in (65..90) \cup (97..122)
       /\ \A j \in 1..(Find(url, <<Colon>>) - 1) : IsSchemeChar(url[j])
    THEN Find(url, <<Colon>>) - 1
    ELSE 0

\* <<path, query, fragment>> of what follows the netloc: the fragment is cut
\* off first, then the query.
SplitQuery(cut) == PartitionFirst(cut[1], Question) \o <<cut[2]>>

SplitFragment(url) == SplitQuery(PartitionFirst(url, Hash))

SplitChecked(scheme, hasNetloc, netloc, url) ==
    IF hasNetloc /\ BracketCheck(netloc) # "none" THEN Raise("ValueError")
    ELSE IF CheckNetloc(netloc) # "none" THEN Raise("ValueError")
    ELSE Ok(<<scheme, netloc>> \o SplitFragment(url))

SplitNetloc(scheme, url) ==
    IF StartsWith(url, <<Slash, Slash>>)
    THEN SplitChecked(scheme, TRUE, SubSeq(url, 3, FirstDelim(url, 3) - 1),
                      From(url, FirstDelim(url, 3)))
    ELSE SplitChecked(scheme, FALSE, <<>>, url)

SplitScheme(url, n) ==
    IF n > 0
    THEN SplitNetloc([j \in 1..n |-> LowerAscii(url[j])], From(url, n + 2))
    ELSE SplitNetloc(<<>>, url)

SplitClean(url) == SplitScheme(url, SchemeLen(url))

\* urlsplit(k): <<scheme, netloc, path, query, fragment>>, or ValueError.
UrlSplit(k) == SplitClean(RemoveUnsafe(LStripC0(k)))

\* urllib.parse.uses_netloc, without its empty entry.
UsesNetloc ==
    {Str(<<"f", "t", "p">>),
     Str(<<"h", "t", "t", "p">>),
     Str(<<"g", "o", "p", "h", "e", "r">>),
     Str(<<"n", "n", "t", "p">>),
     Str(<<"t", "e", "l", "n", "e", "t">>),
     Str(<<"i", "m", "a", "p">>),
     Str(<<"w", "a", "i", "s">>),
     Str(<<"f", "i", "l", "e">>),
     Str(<<"m", "m", "s">>),
     Str(<<"h", "t", "t", "p", "s">>),
     Str(<<"s", "h", "t", "t", "p">>),
     Str(<<"s", "n", "e", "w", "s">>),
     Str(<<"p", "r", "o", "s", "p", "e", "r", "o">>),
     Str(<<"r", "t", "s", "p">>),
     Str(<<"r", "t", "s", "p", "s">>),
     Str(<<"r", "t", "s", "p", "u">>),
     Str(<<"r", "s", "y", "n", "c">>),
     Str(<<"s", "v", "n">>),
     Str(<<"s", "v", "n", "+", "s", "s", "h">>),
     Str(<<"s", "f", "t", "p">>),
     Str(<<"n", "f", "s">>),
     Str(<<"g", "i", "t">>),
     Str(<<"g", "i", "t", "+", "s", "s", "h">>),
     Str(<<"w", "s">>),
     Str(<<"w", "s", "s">>)}

\* The netloc and the path, as urlunsplit joins them.
JoinNetloc(scheme, netloc, url) ==
    IF netloc # <<>> \/ (scheme \in UsesNetloc /\ ~StartsWith(url, <<Slash, Slash>>))
    THEN <<Slash, Slash>> \o netloc
         \o (IF url # <<>> /\ url[1] # Slash THEN <<Slash>> ELSE <<>>) \o url
    ELSE url

\* urlunsplit(parts)
UrlUnsplit(parts) ==
    (IF parts[1] # <<>> THEN parts[1] \o <<Colon>> ELSE <<>>)
    \o JoinNetloc(parts[1], parts[2], parts[3])
    \o (IF parts[4] # <<>> THEN <<Question>> \o parts[4] ELSE <<>>)
    \o (IF parts[5] # <<>> THEN <<Hash>> \o parts[5] ELSE <<>>)

(***************************************************************************)
(* str.encode('idna'), line 62: encodings.idna, with nameprep and          *)
(* punycode.                                                               *)
(***************************************************************************)

\* The full stops that separate labels: U+002E, U+3002, U+FF0E, U+FF61.
Dots == {46, 12290, 65294, 65377}

\* s split at every character of seps, the empty pieces kept.
RECURSIVE SplitAt(_, _, _)
SplitAt(s, seps, cur) ==
    IF s = <<>> THEN <<cur>>
    ELSE IF s[1] \in seps THEN <<cur>> \o SplitAt(Tail(s), seps, <<>>)
    ELSE SplitAt(Tail(s), seps, Append(cur, s[1]))

\* stringprep's map step for one character (tables B.1 and B.2), for the
\* characters of the model: ASCII letters fold to lower case, E acute to
\* e acute; none is mapped to nothing.
NameprepMap(c) == CASE c < 128 -> <<LowerAscii(c)>>
                    [] c = 201 -> <<233>>
                    [] c \in {233, 65533} -> <<c>>

\* stringprep's prohibited characters (tables C.1.2 to C.9), among the
\* characters of the model: U+FFFD is in table C.6.
NameprepProhibited(c) == c = 65533

\* nameprep(label): map, normalise, prohibit.  No character of the model is
\* right-to-left, so the bidi check passes.
Nameprep(label) ==
    LET mapped == Concat([i \in 1..Len(label) |-> NameprepMap(label[i])])
        normal == Concat([i \in 1..Len(mapped) |-> Nfkc(mapped[i])])
    IN IF \E i \in 1..Len(normal) : NameprepProhibited(normal[i])
       THEN Raise("UnicodeError")
       ELSE Ok(normal)

\* The punycode digit of d: a..z, then 0..9.
PunyDigit(d) == IF d < 26 THEN 97 + d ELSE 22 + d

PunyThreshold(k, bias) == IF k <= bias THEN 1 ELSE IF k >= bias + 26 THEN 26 ELSE k - bias

\* One delta as a generalized variable-length integer.
RECURSIVE PunyInteger(_, _, _)
PunyInteger(q, k, bias) ==
    LET t == PunyThreshold(k, bias)
    IN IF q < t THEN <<PunyDigit(q)>>
       ELSE <<PunyDigit(t + ((q - t) % (36 - t)))>>
            \o PunyInteger((q - t) \div (36 - t), k + 36, bias)

RECURSIVE PunyAdaptLoop(_, _)
PunyAdaptLoop(delta, k) ==
    IF delta > 455 THEN PunyAdaptLoop(delta \div 35, k + 36)
    ELSE k + ((36 * delta) \div (delta + 38))

PunyAdapt(delta, numpoints, first) ==
    LET d == IF first THEN delta \div 700 ELSE delta \div 2
    IN PunyAdaptLoop(d + (d \div numpoints), 0)

\* The pass over s for the code point n: st = [delta, bias, h, out].
RECURSIVE PunyPass(_, _, _, _, _)
PunyPass(s, i, n, b, st) ==
    IF i > Len(s) THEN st
    ELSE IF s[i] < n THEN PunyPass(s, i + 1, n, b, [st EXCEPT !.delta = @ + 1])
    ELSE IF s[i] = n
         THEN PunyPass(s, i + 1, n, b,
                       [delta |-> 0,
                        bias |-> PunyAdapt(st.delta, st.h + 1, st.h = b),
                        h |-> st.h + 1,
                        out |-> st.out \o PunyInteger(st.delta, 36, st.bias)])
    ELSE PunyPass(s, i + 1, n, b, st)

RECURSIVE PunyLoop(_, _, _, _)
PunyLoop(s, n, b, st) ==
    IF st.h >= Len(s) THEN st.out
    ELSE LET rest == {s[i] : i \in {j \in 1..Len(s) : s[j] >= n}}
             m == CHOOSE c \in rest : \A d \in rest : c <= d
             st1 == PunyPass(s, 1, m, b, [st EXCEPT !.delta = @ + (m - n) * (st.h + 1)])
         IN PunyLoop(s, m + 1, b, [st1 EXCEPT !.delta = @ + 1])

\* label.encode('punycode')
Punycode(s) ==
    LET basic == SelectSeq(s, LAMBDA c : c < 128)
        b == Len(basic)
        head == IF b > 0 THEN basic \o <<Ord("-")>> ELSE <<>>
    IN PunyLoop(s, 128, b, [delta |-> 0, bias |-> 72, h |-> b, out |-> head])

AcePrefix == Str(<<"x", "n", "-", "-">>)

LabelSize(label) == IF 0 < Len(label) /\ Len(label) < 64 THEN Ok(label) ELSE Raise("UnicodeError")

\* ToASCII(label), once nameprep has run on a label that is not ASCII.
ToASCIIPrepared(prep) ==
    IF prep.err # "none" THEN prep
    ELSE IF IsAsciiStr(prep.val) THEN LabelSize(prep.val)
    ELSE IF StartsWith(prep.val, AcePrefix) THEN Raise("UnicodeError")
    ELSE LabelSize(AcePrefix \o Punycode(prep.val))

\* ToASCII(label)
ToASCII(label) ==
    IF IsAsciiStr(label) THEN LabelSize(label) ELSE ToASCIIPrepared(Nameprep(label))

\* The labels joined with U+002E.
RECURSIVE JoinDots(_)
JoinDots(labels) ==
    IF labels = <<>> THEN <<>>
    ELSE IF Len(labels) = 1 THEN labels[1]
    ELSE labels[1] \o <<Dot>> \o JoinDots(Tail(labels))

\* The ASCII fast path of Codec.encode: the sizes of the labels are checked and
\* the name is given back as it is.
IdnaAscii(input, labels) ==
    IF \/ \E i \in 1..(Len(labels) - 1) : ~(0 < Len(labels[i]) /\ Len(labels[i]) < 64)
       \/ Len(labels[Len(labels)]) >= 64
    THEN Raise("UnicodeError")
    ELSE Ok(input)

\* ToASCII of every label in turn, the results joined with U+002E.
RECURSIVE IdnaLabels(_, _)
IdnaNext(labels, done, enc) ==
    IF enc.err # "none" THEN enc ELSE IdnaLabels(Tail(labels), Append(done, enc.val))

IdnaLabels(labels, done) ==
    IF labels = <<>> THEN Ok(JoinDots(done))
    ELSE IdnaNext(labels, done, ToASCII(Head(labels)))

IdnaTrailing(r) == IF r.err # "none" THEN r ELSE Ok(r.val \o <<Dot>>)

\* The labels of a name that is not ASCII; a trailing full stop is kept.
IdnaDotted(all) ==
    IF all[Len(all)] = <<>>
    THEN IdnaTrailing(IdnaLabels(SubSeq(all, 1, Len(all) - 1), <<>>))
    ELSE IdnaLabels(all, <<>>)

\* Codec.encode(input)
IdnaEncode(input) ==
    IF input = <<>> THEN Ok(<<>>)
    ELSE IF IsAsciiStr(input) THEN IdnaAscii(input, SplitAt(input, {Dot}, <<>>))
    ELSE IdnaDotted(SplitAt(input, Dots, <<>>))

\* Line 63, given the parts of line 61 and the host of line 62.
IdnaJoin(parts, host) ==
    IF host.err # "none" THEN host ELSE Ok(UrlUnsplit([parts EXCEPT ![2] = host.val]))

IdnaOfSplit(split) ==
    IF split.err # "none" THEN split ELSE IdnaJoin(split.val, IdnaEncode(split.val[2]))

\* Lines 61-63: the URL with its host component re-encoded to IDNA.
IdnaUrl(k) == IdnaOfSplit(UrlSplit(k))

(***************************************************************************)
(* The URLs the model draws its inputs from.                               *)
(***************************************************************************)

\* "http://fed.com/meet1"
UrlMeet1Http ==
    Str(<<"h", "t", "t", "p", ":", "/", "/", "f", "e", "d", ".", "c", "o", "m", "/", "m", "e", "e", "t", "1">>)

\* "https://fed.com/meet1"
UrlMeet1Https ==
    Str(<<"h", "t", "t", "p", "s", ":", "/", "/", "f", "e", "d", ".", "c", "o", "m", "/", "m", "e", "e", "t", "1">>)

\* "http://fed.com/meet2"
UrlMeet2Http ==
    Str(<<"h", "t", "t", "p", ":", "/", "/", "f", "e", "d", ".", "c", "o", "m", "/", "m", "e", "e", "t", "2">>)

\* "https://fed.com/m%20x"
UrlPctHttps ==
    Str(<<"h", "t", "t", "p", "s", ":", "/", "/", "f", "e", "d", ".", "c", "o", "m", "/", "m", "%", "2", "0", "x">>)

\* "http://fed.com/m x"
UrlSpaceHttp ==
    Str(<<"h", "t", "t", "p", ":", "/", "/", "f", "e", "d", ".", "c", "o", "m", "/", "m", " ", "x">>)

\* "http://fe-acuted.com/m" (a host that is not ASCII)
UrlIdnHost ==
    Str(<<"h", "t", "t", "p", ":", "/", "/", "f">>)
    \o <<233>>
    \o Str(<<"d", ".", "c", "o", "m", "/", "m">>)

\* "http://fed..com/m" (an empty host label: the idna codec refuses it)
UrlBadHost ==
    Str(<<"h", "t", "t", "p", ":", "/", "/", "f", "e", "d", ".", ".", "c", "o", "m", "/", "m">>)

\* "fed.com/%C3%A9"
UrlPctPath == Str(<<"f", "e", "d", ".", "c", "o", "m", "/", "%", "C", "3", "%", "A", "9">>)

\* "http://www.openpowerlifting.org/m"
UrlOwnSite ==
    Str(<<"h", "t", "t", "p", ":", "/", "/", "w", "w", "w", ".", "o", "p", "e", "n", "p", "o", "w", "e", "r", "l", "i", "f", "t", "i", "n", "g", ".", "o", "r", "g", "/", "m">>)

\* "https://a.b/http://c" (both schemes in one URL)
UrlNested == Str(<<"h", "t", "t", "p", "s", ":", "/", "/", "a", ".", "b", "/", "h", "t", "t", "p", ":", "/", "/", "c">>)

\* The entered URLs: getenteredurls also yields the empty str (a blank line of
\* a marker file).
EnteredUniverse ==
    {UrlMeet1Http, UrlPctHttps, UrlSpaceHttp, UrlIdnHost, UrlBadHost, UrlPctPath, UrlNested,
     <<>>}

\* The URLs a federation page may list.
CandidateUniverse == {UrlMeet1Http, UrlMeet1Https, UrlMeet2Http, UrlOwnSite}

\* At most MaxEntered entered URLs and MaxCand candidates.
MaxEntered == 2

MaxCand == 3

\* The sequences over S of length at most n.
SeqUpTo(S, n) == UNION {[1..m -> S] : m \in 0..n}

(***************************************************************************)
(* The state.  A run of the model is one call of one of the four           *)
(* functions; the variables of the other three stay as they start.         *)
(***************************************************************************)

VARIABLES
    \* getunenteredurls
    meetlist,       \* the argument meetlist
    enteredArg,     \* the argument enteredmeets, as passed
    enteredmeets,   \* the local enteredmeets, rebound by line 67
    variants,       \* the local variants
    pending,        \* the entries the loop of line 45 has yet to visit
    pos,            \* the index in meetlist of the loop of line 70
    unentered,      \* the local unentered
    dpc,            \* where the call stands
    doutcome,       \* "running", "returned", or the exception that ended it
    \* getenteredurls
    tree,           \* the directory tree under feddir
    walk,           \* the directories os.walk has yet to yield, next first
    lines,          \* the lines of the open marker file yet to be read
    urls,           \* the local urls
    spc,            \* where the call stands
    \* print_meets
    fedstr,         \* the argument fedstr
    printArg,       \* the argument meetlist
    argv,           \* sys.argv
    count,          \* the local count
    printList,      \* the local meetlist, rebound by line 87
    ppos,           \* the index in printList of the loop of line 90
    stdout,         \* the lines written to standard output
    ppc,            \* where the call stands
    poutcome,       \* "running", "returned", or the exception that ended it
    pipeBroken,     \* whether a write has raised BrokenPipeError
    \* gethtml
    url,            \* the argument url
    raise_on_redirect,
    requests,       \* how many times urlopen has been called
    resolved,       \* r.geturl()
    body,           \* what r.read() gives
    bodyRead,       \* whether r.read() has been called
    fresult,        \* the value returned, or the value the exception carries
    fpc,            \* where the call stands
    foutcome        \* "running", "returned", or the exception that ended it

diffVars == <<meetlist, enteredArg, enteredmeets, variants, pending, pos, unentered,
              dpc, doutcome>>

scanVars == <<tree, walk, lines, urls, spc>>

printVars == <<fedstr, printArg, argv, count, printList, ppos, stdout, ppc, poutcome,
               pipeBroken>>

fetchVars == <<url, raise_on_redirect, requests, resolved, body, bodyRead, fresult, fpc,
               foutcome>>

vars == <<diffVars, scanVars, printVars, fetchVars>>

(***************************************************************************)
(* getunenteredurls(meetlist, enteredmeets), lines 42-78.                  *)
(***************************************************************************)

Http == Str(<<"h", "t", "t", "p", ":", "/", "/">>)

Https == Str(<<"h", "t", "t", "p", "s", ":", "/", "/">>)

Pct20 == Str(<<"%", "2", "0">>)

OwnSite ==
    Str(<<"w", "w", "w", ".", "o", "p", "e", "n", "p", "o", "w", "e", "r",
          "l", "i", "f", "t", "i", "n", "g", ".", "o", "r", "g">>)

\* s.replace(old, new, 1): the first occurrence alone.
ReplaceFirst(s, old, new) ==
    IF Contains(s, old)
    THEN SubSeq(s, 1, Find(s, old) - 1) \o new \o From(s, Find(s, old) + Len(old))
    ELSE s

\* A slip in lines 47-50: each replace stops after the first occurrence.
SchemeVariantsFirstOnly(k) ==
    (IF Contains(k, Https) THEN {ReplaceFirst(k, Https, Http)} ELSE {})
    \cup (IF Contains(k, Http) THEN {ReplaceFirst(k, Http, Https)} ELSE {})

\* A slip in lines 47-50: the test of line 49 and its replace are missing.
SchemeVariantsOneWay(k) ==
    IF Contains(k, Https) THEN {Replace(k, Https, Http)} ELSE {}

\* Lines 47-50.
SchemeVariants(k) ==
    (IF Contains(k, Https) THEN {Replace(k, Https, Http)} ELSE {})
    \cup (IF Contains(k, Http) THEN {Replace(k, Http, Https)} ELSE {})

\* Lines 52-55.
SpaceVariants(k) ==
    (IF Contains(k, Pct20) THEN {Replace(k, Pct20, <<Space>>)} ELSE {})
    \cup (IF Contains(k, <<Space>>) THEN {Replace(k, <<Space>>, Pct20)} ELSE {})

\* Line 58.
UnquoteVariants(k) == {Unquote(k)}

\* Lines 64-65, once lines 61-63 have given url_idna.
IdnaVariants(url_idna) == {url_idna, Unquote(url_idna)}

\* One pass of the loop body, lines 47-65, for an entry whose host encodes.
VariantsOf(k) ==
    SchemeVariants(k) \cup SpaceVariants(k) \cup UnquoteVariants(k)
    \cup IdnaVariants(IdnaUrl(k).val)

\* No call of getunenteredurls.
DiffIdle ==
    /\ meetlist = <<>>
    /\ enteredArg = {}
    /\ enteredmeets = {}
    /\ variants = {}
    /\ pending = {}
    /\ pos = 1
    /\ unentered = <<>>
    /\ dpc = "idle"
    /\ doutcome = "idle"

\* The call: any entered set and any candidate list within the bounds.
DiffInit ==
    /\ meetlist \in SeqUpTo(CandidateUniverse, MaxCand)
    /\ enteredArg \in {E \in SUBSET EnteredUniverse : Cardinality(E) <= MaxEntered}
    /\ enteredmeets = enteredArg
    /\ variants = {}
    /\ pending = enteredArg
    /\ pos = 1
    /\ unentered = <<>>
    /\ dpc = "variants"
    /\ doutcome = "running"

\* Lines 45-65 for one entry k, in whatever order the set yields its entries.
ExpandEntry ==
    /\ dpc = "variants"
    /\ \E k \in pending :
         /\ IdnaUrl(k).err = "none"
         /\ variants' = variants \cup VariantsOf(k)
         /\ pending' = pending \ {k}
    /\ UNCHANGED <<meetlist, enteredArg, enteredmeets, pos, unentered, dpc, doutcome>>
    /\ UNCHANGED <<scanVars, printVars, fetchVars>>

\* Lines 45-62 for an entry whose urlsplit or idna encoding raises: the
\* exception is not caught and ends the call.  Lines 47-58 have added to
\* variants by then.
ExpandRaise ==
    /\ dpc = "variants"
    /\ \E k \in pending :
         /\ IdnaUrl(k).err # "none"
         /\ variants' = variants \cup SchemeVariants(k) \cup SpaceVariants(k)
                                 \cup UnquoteVariants(k)
         /\ doutcome' = IdnaUrl(k).err
    /\ dpc' = "done"
    /\ UNCHANGED <<meetlist, enteredArg, enteredmeets, pending, pos, unentered>>
    /\ UNCHANGED <<scanVars, printVars, fetchVars>>

\* Lines 67-69.
UnionVariants ==
    /\ dpc = "variants"
    /\ pending = {}
    /\ enteredmeets' = enteredmeets \cup variants
    /\ unentered' = <<>>
    /\ dpc' = "filter"
    /\ UNCHANGED <<meetlist, enteredArg, variants, pending, pos, doutcome>>
    /\ UNCHANGED <<scanVars, printVars, fetchVars>>

\* m in unentered
InList(m, list) == \E i \in 1..Len(list) : list[i] = m

\* A slip in line 72: the host is compared, not searched for.
IsOwnSiteHostOnly(m) == m = OwnSite

\* Lines 72-73.
IsOwnSite(m) == Contains(m, OwnSite)

\* A slip in line 75: the test "m not in unentered" is missing.
IsNewNoDedup(m, entered, found) == m \notin entered

\* Line 75.
IsNew(m, entered, found) == m \notin entered /\ ~InList(m, found)

\* Lines 70-73: a candidate that names this site as its source is skipped.
SkipOwnSite ==
    /\ dpc = "filter"
    /\ pos <= Len(meetlist)
    /\ IsOwnSite(meetlist[pos])
    /\ pos' = pos + 1
    /\ UNCHANGED <<meetlist, enteredArg, enteredmeets, variants, pending, unentered,
                   dpc, doutcome>>
    /\ UNCHANGED <<scanVars, printVars, fetchVars>>

\* Lines 70-75, the test of line 75 failing.
SkipKnown ==
    /\ dpc = "filter"
    /\ pos <= Len(meetlist)
    /\ ~IsOwnSite(meetlist[pos])
    /\ ~IsNew(meetlist[pos], enteredmeets, unentered)
    /\ pos' = pos + 1
    /\ UNCHANGED <<meetlist, enteredArg, enteredmeets, variants, pending, unentered,
                   dpc, doutcome>>
    /\ UNCHANGED <<scanVars, printVars, fetchVars>>

\* Lines 70-76.
AppendUnentered ==
    /\ dpc = "filter"
    /\ pos <= Len(meetlist)
    /\ ~IsOwnSite(meetlist[pos])
    /\ IsNew(meetlist[pos], enteredmeets, unentered)
    /\ unentered' = Append(unentered, meetlist[pos])
    /\ pos' = pos + 1
    /\ UNCHANGED <<meetlist, enteredArg, enteredmeets, variants, pending, dpc, doutcome>>
    /\ UNCHANGED <<scanVars, printVars, fetchVars>>

\* Line 78.
ReturnUnentered ==
    /\ dpc = "filter"
    /\ pos > Len(meetlist)
    /\ dpc' = "done"
    /\ doutcome' = "returned"
    /\ UNCHANGED <<meetlist, enteredArg, enteredmeets, variants, pending, pos, unentered>>
    /\ UNCHANGED <<scanVars, printVars, fetchVars>>

(***************************************************************************)
(* getenteredurls(feddir), lines 32-39.                                    *)
(***************************************************************************)

\* The text of a marker file.
\* Two URLs, each on a line of its own.
TextTwoLines ==
    Str(<<"h", "t", "t", "p", ":", "/", "/", "x", ".", "c", "o", "m", "/", "m", "1">>)
    \o <<10>>
    \o Str(<<"h", "t", "t", "p", ":", "/", "/", "x", ".", "c", "o", "m", "/", "m", "2">>)
    \o <<10>>

\* A URL, then a blank line.
TextBlankLine ==
    Str(<<"h", "t", "t", "p", ":", "/", "/", "x", ".", "c", "o", "m", "/", "m", "1">>)
    \o <<10>>
    \o <<10>>

\* A URL with spaces around it and a CR LF line end, then a line of whitespace.
TextPadded ==
    Str(<<" ", "h", "t", "t", "p", ":", "/", "/", "x", ".", "c", "o", "m", "/", "m", "3", " ">>)
    \o <<13>>
    \o <<10>>
    \o Str(<<" ">>)
    \o <<9>>
    \o <<10>>

\* A URL with no line end after it.
TextNoNewline ==
    Str(<<"h", "t", "t", "p", ":", "/", "/", "x", ".", "c", "o", "m", "/", "m", "2">>)

MarkerTexts == {TextTwoLines, TextBlankLine, TextPadded, TextNoNewline}

\* What a directory may hold: nothing, a file that is not the marker (the
\* name differs in case or altogether), or the marker file with one of the texts.
DirEntries ==
    {[files |-> {}, text |-> <<>>],
     [files |-> {"url", "README"}, text |-> TextTwoLines]}
    \cup {[files |-> {"URL", "README"}, text |-> t] : t \in MarkerTexts}

\* The tree has at most MaxDirs directories; directory 1 is feddir.
MaxDirs == 3

\* The trees of n directories: parent[d] is the directory that holds d.
Trees(n) ==
    {[parent |-> p, entry |-> e] :
        p \in {q \in [2..n -> 1..n] : \A d \in 2..n : q[d] < d},
        e \in [1..n -> DirEntries]}

ScanIdle ==
    /\ tree = [parent |-> <<>>, entry |-> <<>>]
    /\ walk = <<>>
    /\ lines = <<>>
    /\ urls = {}
    /\ spc = "idle"

\* The call, line 33 done: os.walk starts at feddir.
ScanInit ==
    /\ tree \in UNION {Trees(n) : n \in 1..MaxDirs}
    /\ walk = <<1>>
    /\ lines = <<>>
    /\ urls = {}
    /\ spc = "walk"

\* The file as text mode gives it: "\r\n" and a lone "\r" read as "\n".
RECURSIVE UniversalNewlines(_)
UniversalNewlines(s) ==
    IF s = <<>> THEN <<>>
    ELSE IF s[1] = 13
         THEN <<10>> \o UniversalNewlines(IF Len(s) >= 2 /\ s[2] = 10
                                          THEN From(s, 3) ELSE Tail(s))
         ELSE <<s[1]>> \o UniversalNewlines(Tail(s))

\* The lines of s, each with its line end, cur being the line begun.
RECURSIVE SplitLines(_, _)
SplitLines(s, cur) ==
    IF s = <<>> THEN (IF cur = <<>> THEN <<>> ELSE <<cur>>)
    ELSE IF s[1] = 10 THEN <<Append(cur, 10)>> \o SplitLines(Tail(s), <<>>)
    ELSE SplitLines(Tail(s), Append(cur, s[1]))

\* fd.readlines(), line 37.
Readlines(text) == SplitLines(UniversalNewlines(text), <<>>)

\* Line 35.
HasMarker(files) == "URL" \in files

\* Line 38: what one line adds to urls.
AddedUrl(k) == Strip(k)

\* The subdirectories of d.
Subdirs(d) == {c \in DOMAIN tree.parent : tree.parent[c] = d}

\* The orders in which os.walk may descend into the directories of S.
Orders(S) ==
    {o \in [1..Cardinality(S) -> S] : \A i, j \in 1..Cardinality(S) : i # j => o[i] # o[j]}

\* Lines 34-36: os.walk yields the next directory, which holds a marker file;
\* the file is opened.  The walk goes on to its subdirectories, top down.
VisitMarked ==
    /\ spc = "walk"
    /\ walk # <<>>
    /\ HasMarker(tree.entry[Head(walk)].files)
    /\ lines' = Readlines(tree.entry[Head(walk)].text)
    /\ \E o \in Orders(Subdirs(Head(walk))) : walk' = o \o Tail(walk)
    /\ spc' = "read"
    /\ UNCHANGED <<tree, urls>>
    /\ UNCHANGED <<diffVars, printVars, fetchVars>>

\* Lines 34-35: the next directory holds no marker file.
VisitPlain ==
    /\ spc = "walk"
    /\ walk # <<>>
    /\ ~HasMarker(tree.entry[Head(walk)].files)
    /\ \E o \in Orders(Subdirs(Head(walk))) : walk' = o \o Tail(walk)
    /\ UNCHANGED <<tree, lines, urls, spc>>
    /\ UNCHANGED <<diffVars, printVars, fetchVars>>

\* Lines 37-38 for one line.
AddLine ==
    /\ spc = "read"
    /\ lines # <<>>
    /\ urls' = urls \cup {AddedUrl(Head(lines))}
    /\ lines' = Tail(lines)
    /\ UNCHANGED <<tree, walk, spc>>
    /\ UNCHANGED <<diffVars, printVars, fetchVars>>

\* The end of the loop of line 37: the file is closed.
CloseMarker ==
    /\ spc = "read"
    /\ lines = <<>>
    /\ spc' = "walk"
    /\ UNCHANGED <<tree, walk, lines, urls>>
    /\ UNCHANGED <<diffVars, printVars, fetchVars>>

\* Line 39.
ReturnUrls ==
    /\ spc = "walk"
    /\ walk = <<>>
    /\ spc' = "done"
    /\ UNCHANGED <<tree, walk, lines, urls>>
    /\ UNCHANGED <<diffVars, printVars, fetchVars>>

(***************************************************************************)
(* print_meets(fedstr, meetlist), lines 82-96.                             *)
(***************************************************************************)

\* The lists printed have at most MaxMeets entries.
MaxMeets == 8

PrintUniverse == {UrlMeet2Http, UrlSpaceHttp}

\* "FED"
FedLabel == Str(<<"F", "E", "D">>)

\* sys.argv: the script alone, with --quick, or with an argument that only
\* starts like it.
ArgvUniverse == {<<"probe">>, <<"probe", "--quick">>, <<"probe", "--quickly">>}

PrintIdle ==
    /\ fedstr = <<>>
    /\ printArg = <<>>
    /\ argv = <<>>
    /\ count = 0
    /\ printList = <<>>
    /\ ppos = 1
    /\ stdout = <<>>
    /\ ppc = "idle"
    /\ poutcome = "idle"
    /\ pipeBroken = FALSE

PrintInit ==
    /\ fedstr = FedLabel
    /\ printArg \in SeqUpTo(PrintUniverse, MaxMeets)
    /\ argv \in ArgvUniverse
    /\ count = 0
    /\ printList = printArg
    /\ ppos = 1
    /\ stdout = <<>>
    /\ ppc = "start"
    /\ poutcome = "running"
    /\ pipeBroken = FALSE

\* Line 86.
QuickRequested(args) == InList("--quick", args)

\* A slip in line 87: meetlist[1:5].
QuickSliceOffByOne(list) == SubSeq(list, 2, IF Len(list) < 5 THEN Len(list) ELSE 5)

\* Line 87: meetlist[0:5].
QuickSlice(list) == SubSeq(list, 1, IF Len(list) < 5 THEN Len(list) ELSE 5)

\* Line 91: "%s %s" % (fedstr, url.replace(' ', '%20'))
UrlLine(fed, u) == fed \o <<Space>> \o Replace(u, <<Space>>, Pct20)

\* Line 94: "%s %d meets remaining." % (fedstr, count)
SummaryLine(fed, n) ==
    fed \o <<Space>> \o Decimal(n)
    \o Str(<<" ", "m", "e", "e", "t", "s", " ", "r", "e", "m", "a", "i", "n", "i", "n", "g", ".">>)

\* A slip in line 93: count >= 3.
SummaryDueFromThree(n) == n >= 3

\* Line 93.
SummaryDue(n) == n > 3

\* Lines 83-87.
CountAndTruncate ==
    /\ ppc = "start"
    /\ count' = Len(printArg)
    /\ printList' = IF QuickRequested(argv) THEN QuickSlice(printArg) ELSE printArg
    /\ ppc' = "urls"
    /\ UNCHANGED <<fedstr, printArg, argv, ppos, stdout, poutcome, pipeBroken>>
    /\ UNCHANGED <<diffVars, scanVars, fetchVars>>

\* Lines 90-91 for one entry.
PrintUrl ==
    /\ ppc = "urls"
    /\ ppos <= Len(printList)
    /\ stdout' = Append(stdout, UrlLine(fedstr, printList[ppos]))
    /\ ppos' = ppos + 1
    /\ UNCHANGED <<fedstr, printArg, argv, count, printList, ppc, poutcome, pipeBroken>>
    /\ UNCHANGED <<diffVars, scanVars, fetchVars>>

\* Lines 93-94, and the return that follows.
PrintSummary ==
    /\ ppc = "urls"
    /\ ppos > Len(printList)
    /\ SummaryDue(count)
    /\ stdout' = Append(stdout, SummaryLine(fedstr, count))
    /\ ppc' = "done"
    /\ poutcome' = "returned"
    /\ UNCHANGED <<fedstr, printArg, argv, count, printList, ppos, pipeBroken>>
    /\ UNCHANGED <<diffVars, scanVars, fetchVars>>

\* Line 93, the test failing, and the return that follows.
NoSummary ==
    /\ ppc = "urls"
    /\ ppos > Len(printList)
    /\ ~SummaryDue(count)
    /\ ppc' = "done"
    /\ poutcome' = "returned"
    /\ UNCHANGED <<fedstr, printArg, argv, count, printList, ppos, stdout, pipeBroken>>
    /\ UNCHANGED <<diffVars, scanVars, fetchVars>>

\* A print is the next statement: line 91 or line 94.
PrintIsNext == ppc = "urls" /\ (ppos <= Len(printList) \/ SummaryDue(count))

\* Lines 95-96 missing: the BrokenPipeError leaves print_meets.
AfterBrokenPipeUncaught == "BrokenPipeError"

\* Lines 95-96: what becomes of the call when a print raises BrokenPipeError.
AfterBrokenPipe == "returned"

\* The print of line 91 or line 94 raises BrokenPipeError: the reader of the
\* pipe is gone.  Nothing is written.
WriteBrokenPipe ==
    /\ PrintIsNext
    /\ pipeBroken' = TRUE
    /\ ppc' = "done"
    /\ poutcome' = AfterBrokenPipe
    /\ UNCHANGED <<fedstr, printArg, argv, count, printList, ppos, stdout>>
    /\ UNCHANGED <<diffVars, scanVars, fetchVars>>

\* The print raises another OSError, which line 95 does not catch.
WriteFails ==
    /\ PrintIsNext
    /\ ppc' = "done"
    /\ poutcome' = "OSError"
    /\ UNCHANGED <<fedstr, printArg, argv, count, printList, ppos, stdout, pipeBroken>>
    /\ UNCHANGED <<diffVars, scanVars, fetchVars>>

(***************************************************************************)
(* gethtml(url, raise_on_redirect), lines 22-29.                           *)
(***************************************************************************)

FetchUrls == {"http://fed.com/meets", "https://fed.com/meets", "http://fed.com/"}

Bodies == {"<html>meets</html>", "<html>moved</html>", ""}

FetchIdle ==
    /\ url = ""
    /\ raise_on_redirect = FALSE
    /\ requests = 0
    /\ resolved = ""
    /\ body = ""
    /\ bodyRead = FALSE
    /\ fresult = ""
    /\ fpc = "idle"
    /\ foutcome = "idle"

FetchInit ==
    /\ url \in FetchUrls
    /\ raise_on_redirect \in BOOLEAN
    /\ requests = 0
    /\ resolved = ""
    /\ body = ""
    /\ bodyRead = FALSE
    /\ fresult = ""
    /\ fpc = "request"
    /\ foutcome = "running"

\* A slip in line 27: raise_on_redirect is not tested.
RedirectRefusedAlways(strict, final, asked) == final # asked

\* Line 27.
RedirectRefused(strict, final, asked) == strict /\ final # asked

\* Lines 23-26: urlopen answers, after whatever redirects it followed, from
\* the URL final with the content given.
UrlopenAnswers ==
    /\ fpc = "request"
    /\ requests' = requests + 1
    /\ \E final \in FetchUrls, content \in Bodies :
         /\ resolved' = final
         /\ body' = content
    /\ fpc' = "response"
    /\ UNCHANGED <<url, raise_on_redirect, bodyRead, fresult, foutcome>>
    /\ UNCHANGED <<diffVars, scanVars, printVars>>

\* Lines 23-26: urlopen raises (a timeout, a DNS failure, an HTTP error
\* status); nothing catches it.
UrlopenRaises ==
    /\ fpc = "request"
    /\ requests' = requests + 1
    /\ fpc' = "done"
    /\ foutcome' = "URLError"
    /\ UNCHANGED <<url, raise_on_redirect, resolved, body, bodyRead, fresult>>
    /\ UNCHANGED <<diffVars, scanVars, printVars>>

\* Lines 27-28.
RaiseRedirect ==
    /\ fpc = "response"
    /\ RedirectRefused(raise_on_redirect, resolved, url)
    /\ fresult' = resolved
    /\ fpc' = "done"
    /\ foutcome' = "UnexpectedRedirect"
    /\ UNCHANGED <<url, raise_on_redirect, requests, resolved, body, bodyRead>>
    /\ UNCHANGED <<diffVars, scanVars, printVars>>

\* Line 29.
ReadBody ==
    /\ fpc = "response"
    /\ ~RedirectRefused(raise_on_redirect, resolved, url)
    /\ bodyRead' = TRUE
    /\ fresult' = body
    /\ fpc' = "done"
    /\ foutcome' = "returned"
    /\ UNCHANGED <<url, raise_on_redirect, requests, resolved, body>>
    /\ UNCHANGED <<diffVars, scanVars, printVars>>

\* Line 29, r.read() raising: the connection fails while the body is read.
ReadRaises ==
    /\ fpc = "response"
    /\ ~RedirectRefused(raise_on_redirect, resolved, url)
    /\ bodyRead' = TRUE
    /\ fpc' = "done"
    /\ foutcome' = "OSError"
    /\ UNCHANGED <<url, raise_on_redirect, requests, resolved, body, fresult>>
    /\ UNCHANGED <<diffVars, scanVars, printVars>>

(***************************************************************************)
(* The specification: one call of one function.                            *)
(***************************************************************************)

Init ==
    \/ DiffInit /\ ScanIdle /\ PrintIdle /\ FetchIdle
    \/ DiffIdle /\ ScanInit /\ PrintIdle /\ FetchIdle
    \/ DiffIdle /\ ScanIdle /\ PrintInit /\ FetchIdle
    \/ DiffIdle /\ ScanIdle /\ PrintIdle /\ FetchInit

Next ==
    \/ ExpandEntry
    \/ ExpandRaise
    \/ UnionVariants
    \/ SkipOwnSite
    \/ SkipKnown
    \/ AppendUnentered
    \/ ReturnUnentered
    \/ VisitMarked
    \/ VisitPlain
    \/ AddLine
    \/ CloseMarker
    \/ ReturnUrls
    \/ CountAndTruncate
    \/ PrintUrl
    \/ PrintSummary
    \/ NoSummary
    \/ WriteBrokenPipe
    \/ WriteFails
    \/ UrlopenAnswers
    \/ UrlopenRaises
    \/ RaiseRedirect
    \/ ReadBody
    \/ ReadRaises

Spec == Init /\ [][Next]_vars

(***************************************************************************)
(* getunenteredurls: the properties of the result.                         *)
(***************************************************************************)

\* The call has returned its list.
DiffReturned == dpc = "done" /\ doutcome = "returned"

\* Line 67 has run: enteredmeets holds the expanded entered set.
DiffExpanded == dpc = "filter" \/ DiffReturned

\* The expanded entered set of E: E together with the variants generated from
\* each of its entries.
Expanded(E) == E \cup UNION {VariantsOf(k) : k \in E}

\* a is b with some entries left out, the order kept.
RECURSIVE IsSubsequence(_, _)
IsSubsequence(a, b) ==
    IF a = <<>> THEN TRUE
    ELSE IF b = <<>> THEN FALSE
    ELSE IF Head(a) = Head(b) THEN IsSubsequence(Tail(a), Tail(b))
    ELSE IsSubsequence(a, Tail(b))

NoDuplicates(list) == \A i, j \in 1..Len(list) : i # j => list[i] # list[j]

\* C1: the list returned is a subsequence of the candidate list in its
\* original order, holds no str twice, and holds no str that is in the
\* expanded entered set (the entered set together with the variants generated
\* from it).
C1_ResultIsOrderedUniqueUnentered ==
    DiffReturned =>
        /\ IsSubsequence(unentered, meetlist)
        /\ NoDuplicates(unentered)
        /\ \A i \in 1..Len(unentered) : unentered[i] \notin Expanded(enteredArg)

\* A call that returned one URL of three candidates: one candidate was a
\* variant of an entered URL, another came twice.
C1_Witness ==
    /\ DiffReturned
    /\ enteredArg = {UrlMeet1Http}
    /\ meetlist = <<UrlMeet1Https, UrlMeet2Http, UrlMeet2Http>>
    /\ unentered = <<UrlMeet2Http>>

\* The first occurrences, in order, of the entries of list that are not in
\* entered: the result for a list that names this site nowhere.
RECURSIVE FirstNew(_, _, _)
FirstNew(list, entered, found) ==
    IF list = <<>> THEN found
    ELSE IF Head(list) \in entered \/ InList(Head(list), found)
         THEN FirstNew(Tail(list), entered, found)
         ELSE FirstNew(Tail(list), entered, Append(found, Head(list)))

\* C2: no str that contains "www.openpowerlifting.org" is ever in the result,
\* whatever the entered set, and skipping such a candidate does not change
\* which other candidates are included: the result is the result for the list
\* without those candidates.
C2_OwnSiteNeverListed ==
    /\ \A i \in 1..Len(unentered) : ~Contains(unentered[i], OwnSite)
    /\ DiffReturned =>
         unentered = FirstNew(SelectSeq(meetlist, LAMBDA m : ~Contains(m, OwnSite)),
                              Expanded(enteredArg), <<>>)

\* A call with an empty entered set that skipped this site's URL between two
\* candidates and kept both.
C2_Witness ==
    /\ DiffReturned
    /\ enteredArg = {}
    /\ meetlist = <<UrlMeet2Http, UrlOwnSite, UrlMeet1Https>>
    /\ unentered = <<UrlMeet2Http, UrlMeet1Https>>

\* The entered URL k with its scheme swapped: what a candidate that differs
\* from k only by scheme looks like.
SchemeSwaps(k) ==
    (IF Contains(k, Http) THEN {Replace(k, Http, Https)} ELSE {})
    \cup (IF Contains(k, Https) THEN {Replace(k, Https, Http)} ELSE {})

IsFixedPoint(S) == \A k \in S : IdnaUrl(k).err = "none" /\ VariantsOf(k) \subseteq S

\* C4, as claimed: the expansion reaches a fixed point in one pass, for every
\* entered set: expand(expand(E)) = expand(E).
C4_Claimed_OnePassFixedPoint == DiffExpanded => IsFixedPoint(enteredmeets)

\* The scheme swap is the only rule that changes k: k holds no space, and
\* percent-decoding and the re-encoding of its host give k back.
OnlySchemeRule(k) ==
    /\ ~Contains(k, <<Space>>)
    /\ Unquote(k) = k
    /\ IdnaUrl(k) = Ok(k)

\* C4, amended: the expansion reaches a fixed point in one pass for every
\* entered set whose URLs are changed by no rule but the scheme swap.  (A URL
\* that two rules change, such as https://fed.com/m%20x, has variants of
\* variants that one pass does not add.)
C4_SchemeOnlyFixedPoint ==
    (DiffExpanded /\ \A k \in enteredArg : OnlySchemeRule(k)) => IsFixedPoint(enteredmeets)

\* An expanded set grown by the scheme swap alone, of a URL that holds both
\* schemes.
C4_Witness ==
    /\ DiffExpanded
    /\ enteredArg = {UrlNested, UrlMeet1Http}
    /\ Cardinality(enteredmeets) = 5

\* C5: an entered URL whose host cannot be IDNA-encoded does not abort the
\* call: the call ends by returning the unentered list, never in an error.
C5_Claimed_BadHostDoesNotAbort == dpc = "done" => doutcome = "returned"

(***************************************************************************)
(* getenteredurls: the set returned.                                       *)
(***************************************************************************)

\* The directories of the tree that hold a file named URL.
MarkedDirs == {d \in DOMAIN tree.entry : "URL" \in tree.entry[d].files}

\* The lines of the marker files of the tree.
MarkerLines ==
    UNION {{Readlines(tree.entry[d].text)[i] : i \in 1..Len(Readlines(tree.entry[d].text))} :
            d \in MarkedDirs}

\* C6: the set returned is exactly the set of the whitespace-trimmed, non-empty
\* lines of all files named URL under the root; the empty str is never in it.
C6_Claimed_NonEmptyTrimmedLines ==
    spc = "done" => urls = {Strip(k) : k \in MarkerLines} \ {<<>>}

(***************************************************************************)
(* print_meets: what is written.                                           *)
(***************************************************************************)

\* The call has returned and no write failed.
PrintedAll == ppc = "done" /\ poutcome = "returned" /\ ~pipeBroken

\* How many entries get a line: the first 5 at most with --quick among the
\* arguments, all of them without.
Shown ==
    IF \E i \in 1..Len(argv) : argv[i] = "--quick"
    THEN (IF Len(printArg) < 5 THEN Len(printArg) ELSE 5)
    ELSE Len(printArg)

\* The line of entry i: the label, a space, the URL with %20 for each space.
ExpectedUrlLine(i) == fedstr \o <<Space>> \o Replace(printArg[i], <<Space>>, Pct20)

MeetsRemaining ==
    Str(<<" ", "m", "e", "e", "t", "s", " ", "r", "e", "m", "a", "i", "n", "i", "n", "g", ".">>)

\* The summary line for the list as passed in.
ExpectedSummary == fedstr \o <<Space>> \o Decimal(Len(printArg)) \o MeetsRemaining

IsSummaryLine(line) ==
    /\ Len(line) >= Len(MeetsRemaining)
    /\ From(line, Len(line) - Len(MeetsRemaining) + 1) = MeetsRemaining

\* C7: a summary line is written only for a list of more than 3 entries, only
\* after every URL line, and the number in it is the length of the list as
\* passed in, before any --quick truncation; a call that returns with no write
\* having failed has written it exactly when the list has more than 3 entries.
C7_SummaryWhenMoreThanThree ==
    /\ \A i \in 1..Len(stdout) :
         IsSummaryLine(stdout[i]) =>
            /\ Len(printArg) > 3
            /\ i = Shown + 1
            /\ i = Len(stdout)
            /\ stdout[i] = ExpectedSummary
    /\ PrintedAll =>
         IF Len(printArg) > 3
         THEN Len(stdout) = Shown + 1 /\ stdout[Len(stdout)] = ExpectedSummary
         ELSE \A i \in 1..Len(stdout) : ~IsSummaryLine(stdout[i])

\* --quick and 8 entries: 5 URL lines, then a summary line that says 8.
C7_Witness ==
    /\ PrintedAll
    /\ argv = <<"probe", "--quick">>
    /\ Len(printArg) = 8
    /\ Len(stdout) = 6
    /\ stdout[6] = FedLabel \o Str(<<" ", "8">>) \o MeetsRemaining

\* C8: the URL lines are written in list order, one per entry: with --quick
\* among the arguments for the first min(5, n) entries and no later one,
\* without it for all n; each is the label, a space, and the URL with every
\* space replaced by %20.  (A call that returns with no write having failed
\* has written them all.)
C8_UrlLinesInOrder ==
    /\ Len(stdout) <= Shown + 1
    /\ \A i \in 1..Len(stdout) : i <= Shown => stdout[i] = ExpectedUrlLine(i)
    /\ \A i \in 1..Len(stdout) : i > Shown => IsSummaryLine(stdout[i])
    /\ PrintedAll => Len(stdout) >= Shown

\* --quick and 7 entries, the second and the sixth with a space in them: 5 URL
\* lines, the second with %20 for the space, and none for the sixth entry.
C8_Witness ==
    /\ PrintedAll
    /\ argv = <<"probe", "--quick">>
    /\ Len(printArg) = 7
    /\ printArg[2] = UrlSpaceHttp
    /\ printArg[6] = UrlSpaceHttp
    /\ Len(stdout) = 6
    /\ stdout[2] = FedLabel \o <<Space>>
                   \o Str(<<"h", "t", "t", "p", ":", "/", "/", "f", "e", "d", ".", "c", "o", "m", "/", "m", "%", "2", "0", "x">>)

\* Everything the call writes when no write fails.
FullOutput ==
    [i \in 1..(Shown + (IF Len(printArg) > 3 THEN 1 ELSE 0)) |->
        IF i <= Shown THEN ExpectedUrlLine(i) ELSE ExpectedSummary]

\* C10: when a write fails with a broken pipe, on a URL line or on the summary
\* line, print_meets writes no further line and returns normally; what it wrote
\* before is a prefix of what it would have written.
C10_BrokenPipeEndsQuietly ==
    pipeBroken =>
        /\ ppc = "done"
        /\ poutcome = "returned"
        /\ Len(stdout) < Len(FullOutput)
        /\ stdout = SubSeq(FullOutput, 1, Len(stdout))

\* The pipe broke on the third URL line of a list of five.
C10_Witness ==
    /\ pipeBroken
    /\ Len(printArg) = 5
    /\ Len(stdout) = 2
    /\ poutcome = "returned"

(***************************************************************************)
(* gethtml: redirects, and the single request.                             *)
(***************************************************************************)

\* urlopen answered: the call has a response to look at.
Answered == fpc = "response" \/ (fpc = "done" /\ foutcome # "URLError")

\* C9: with raise_on_redirect set, a resolved URL that differs from the one
\* requested ends the call in UnexpectedRedirect, which carries the resolved
\* URL, and the body is never read; with the same URL, or without
\* raise_on_redirect, UnexpectedRedirect is never raised and the call returns
\* the body (unless reading it fails); one request is issued in every case.
C9_RedirectAndSingleRequest ==
    /\ requests <= 1
    /\ fpc \in {"response", "done"} => requests = 1
    /\ foutcome = "UnexpectedRedirect" =>
         raise_on_redirect /\ resolved # url /\ fresult = resolved /\ ~bodyRead
    /\ (fpc = "done" /\ Answered /\ raise_on_redirect /\ resolved # url) =>
         foutcome = "UnexpectedRedirect"
    /\ (fpc = "done" /\ Answered /\ ~(raise_on_redirect /\ resolved # url)) =>
         /\ foutcome \in {"returned", "OSError"}
         /\ bodyRead
    /\ foutcome = "returned" => fresult = body

\* A strict call that was redirected: it ended in UnexpectedRedirect, which
\* carries the URL the redirect led to, after one request and without reading.
C9_Witness ==
    /\ foutcome = "UnexpectedRedirect"
    /\ url = "http://fed.com/meets"
    /\ fresult = "https://fed.com/meets"
    /\ requests = 1
    /\ ~bodyRead

====
